---------------------------- MODULE Spec2Model ----------------------------
(***************************************************************************)
(* flat_log_parser: the pipeline of flat_note_to_atoms, which turns one    *)
(* flat log of timestamped notes into one front-matter document per note.  *)
(*                                                                         *)
(* Text is modelled as a sequence of one-character strings, so that the    *)
(* regular expressions, the filename cleaning and the tag parsing of       *)
(* functions.py are computed character by character as the code does.     *)
(***************************************************************************)
EXTENDS Integers, Sequences, FiniteSets, TLC

VARIABLES
    log,            \* the text of the file at in_path
    out_dir,        \* what is at out_dir: "missing", "file" or "dir"
    overwrite_ok,   \* the overwrite_ok argument
    disk,           \* the files in out_dir: file name -> document
    scratch,        \* temp_dir (test_valid_names): "absent", "empty", "probe", "nonempty"
    pc,             \* the statement of the pipeline that runs next
    notes,          \* the blocks get_notes_from_path returned
    decomp_notes,   \* the note dicts, enriched stage by stage
    i,              \* the loop index of add_filenames and of write_notes
    posts,          \* what form_posts returned
    written_files,  \* written_files of write_notes
    err,            \* the exception in flight, or NoErr
    names           \* the names the filename cleaning derived, in order of derivation

vars ==
    <<log, out_dir, overwrite_ok, disk, scratch, pc, notes, decomp_notes, i, posts,
      written_files, err, names>>

-----------------------------------------------------------------------------
(* Bounds of the model. *)

\* the most notes in a log
MaxNotes == 2

\* the most characters in a title handed to the filename cleaning on its own
MaxTitleLen == 3

\* the most fragments in a text handed to the splitter on its own
MaxFragments == 5

\* the most tags in a tag string handed to the tag parser on its own
MaxTags == 3

-----------------------------------------------------------------------------
(* Characters and strings. *)

\* 'ABCDEFGHIJKLMNOPQRSTUVWXYZ'
UpperCase ==
    <<"A", "B", "C", "D", "E", "F", "G", "H", "I", "J", "K", "L", "M", "N", "O", "P", "Q", "R",
      "S", "T", "U", "V", "W", "X", "Y", "Z">>

\* 'abcdefghijklmnopqrstuvwxyz'
LowerCase ==
    <<"a", "b", "c", "d", "e", "f", "g", "h", "i", "j", "k", "l", "m", "n", "o", "p", "q", "r",
      "s", "t", "u", "v", "w", "x", "y", "z">>

\* the characters of the model, in code point order
\* '\t\n "\',-./0123456789:?ABCDEFGHIJKLMNOPQRSTUVWXYZ[]^_abcdefghijklmnopqrstuvwxyz'
Chars ==
    <<"\t", "\n", " ", "\"", "'", ",", "-", ".", "/", "0", "1", "2", "3", "4", "5", "6", "7",
      "8", "9", ":", "?", "A", "B", "C", "D", "E", "F", "G", "H", "I", "J", "K", "L", "M", "N",
      "O", "P", "Q", "R", "S", "T", "U", "V", "W", "X", "Y", "Z", "[", "]", "^", "_", "a", "b",
      "c", "d", "e", "f", "g", "h", "i", "j", "k", "l", "m", "n", "o", "p", "q", "r", "s", "t",
      "u", "v", "w", "x", "y", "z">>

Ord(c) == CHOOSE k \in 1..Len(Chars) : Chars[k] = c

Digits == {"0", "1", "2", "3", "4", "5", "6", "7", "8", "9"}

IsDigit(c) == c \in Digits

\* int() of a string of digits
RECURSIVE ToInt(_)
ToInt(s) ==
    IF s = <<>> THEN 0
    ELSE 10 * ToInt(SubSeq(s, 1, Len(s) - 1)) + (Ord(s[Len(s)]) - Ord("0"))

\* what str.strip() strips
Whitespace == {" ", "\t", "\n"}

IsAlpha(c) == (\E k \in 1..26 : UpperCase[k] = c) \/ (\E k \in 1..26 : LowerCase[k] = c)

LowerChar(c) ==
    IF \E k \in 1..26 : UpperCase[k] = c
    THEN LowerCase[CHOOSE k \in 1..26 : UpperCase[k] = c]
    ELSE c

UpperChar(c) ==
    IF \E k \in 1..26 : LowerCase[k] = c
    THEN UpperCase[CHOOSE k \in 1..26 : LowerCase[k] = c]
    ELSE c

\* str.lower()
Lower(s) == [k \in 1..Len(s) |-> LowerChar(s[k])]

\* str.title(): a letter after a non-letter is upper-cased, any other letter lower-cased
Title(s) ==
    [k \in 1..Len(s) |->
        IF k = 1 \/ ~IsAlpha(s[k - 1]) THEN UpperChar(s[k]) ELSE LowerChar(s[k])]

RECURSIVE LStrip(_)
LStrip(s) ==
    IF s # <<>> /\ Head(s) \in Whitespace THEN LStrip(Tail(s)) ELSE s

RECURSIVE RStrip(_)
RStrip(s) ==
    IF s # <<>> /\ s[Len(s)] \in Whitespace THEN RStrip(SubSeq(s, 1, Len(s) - 1)) ELSE s

\* str.strip()
Strip(s) == LStrip(RStrip(s))

\* str.replace(a, b) for a single character a and a string b
RECURSIVE Replace(_, _, _)
Replace(s, a, b) ==
    IF s = <<>> THEN <<>>
    ELSE (IF Head(s) = a THEN b ELSE <<Head(s)>>) \o Replace(Tail(s), a, b)

\* str.split(c) for a single character c
RECURSIVE SplitOn(_, _)
SplitOn(s, c) ==
    IF \A k \in 1..Len(s) : s[k] # c THEN <<s>>
    ELSE LET k == CHOOSE k \in 1..Len(s) : s[k] = c /\ \A j \in 1..(k - 1) : s[j] # c
         IN <<SubSeq(s, 1, k - 1)>> \o SplitOn(SubSeq(s, k + 1, Len(s)), c)

\* whether lit occurs in s at position p
StartsWithAt(s, p, lit) ==
    p >= 1 /\ p + Len(lit) - 1 <= Len(s) /\ SubSeq(s, p, p + Len(lit) - 1) = lit

EndsWith(s, lit) == StartsWithAt(s, Len(s) - Len(lit) + 1, lit)

\* whether `.*` can match s: no line break in it
NoNewline(s) == \A k \in 1..Len(s) : s[k] # "\n"

\* s < t in the order Python compares strings by: code point by code point
RECURSIVE StrLess(_, _)
StrLess(s, t) ==
    IF t = <<>> THEN FALSE
    ELSE IF s = <<>> THEN TRUE
    ELSE IF Head(s) # Head(t) THEN Ord(Head(s)) < Ord(Head(t))
    ELSE StrLess(Tail(s), Tail(t))

Min(S) == CHOOSE x \in S : \A y \in S : x <= y

\* the strings of a sequence joined by sep
RECURSIVE Join(_, _)
Join(ss, sep) ==
    IF ss = <<>> THEN <<>>
    ELSE IF Len(ss) = 1 THEN ss[1]
    ELSE ss[1] \o sep \o Join(Tail(ss), sep)

-----------------------------------------------------------------------------
(* Exceptions.  kind is the exception class, at the statement that raised  *)
(* it, name the file name, path or title its message (or attached note)    *)
(* identifies, indices the note indexes it reports.                        *)

NoErr == [kind |-> "none", at |-> "", name |-> <<>>, indices |-> {}]

Raise(kind, at) == [kind |-> kind, at |-> at, name |-> <<>>, indices |-> {}]

RaiseNaming(kind, at, name) == [kind |-> kind, at |-> at, name |-> name, indices |-> {}]

RaiseListing(kind, at, indices) ==
    [kind |-> kind, at |-> at, name |-> <<>>, indices |-> indices]

-----------------------------------------------------------------------------
(* get_notes_from_path *)

\* '\n\n'
NOTE_BREAK ==
    <<"\n", "\n">>

\* \d{4}-\d{2}-\d{2} \d{2}:\d{2}:\d{2}, "d" standing for \d
TS_SHAPE ==
    <<"d", "d", "d", "d", "-", "d", "d", "-", "d", "d", " ", "d", "d", ":", "d", "d", ":",
      "d", "d">>

\* whether the date-time pattern matches s at position p
TimestampAt(s, p) ==
    /\ p >= 1
    /\ p + Len(TS_SHAPE) - 1 <= Len(s)
    /\ \A k \in 1..Len(TS_SHAPE) :
          IF TS_SHAPE[k] = "d" THEN IsDigit(s[p + k - 1]) ELSE s[p + k - 1] = TS_SHAPE[k]

\* whether (?<=\])\n\n(?=<date-time>) matches s at position p
BoundaryAt(s, p) ==
    /\ p > 1
    /\ s[p - 1] = "]"
    /\ StartsWithAt(s, p, NOTE_BREAK)
    /\ TimestampAt(s, p + Len(NOTE_BREAK))

\* SplitFrom with a slip: the text is split at the leftmost match only
SplitFromFirstOnly(s, start) ==
    LET matches == {p \in start..Len(s) : BoundaryAt(s, p)}
    IN  IF matches = {} THEN <<SubSeq(s, start, Len(s))>>
        ELSE <<SubSeq(s, start, Min(matches) - 1),
               SubSeq(s, Min(matches) + Len(NOTE_BREAK), Len(s))>>

\* regex.split from position start on: the piece up to the leftmost match at or
\* after start, then the pieces of what follows the match
RECURSIVE SplitFrom(_, _)
SplitFrom(s, start) ==
    LET matches == {p \in start..Len(s) : BoundaryAt(s, p)}
    IN  IF matches = {} THEN <<SubSeq(s, start, Len(s))>>
        ELSE <<SubSeq(s, start, Min(matches) - 1)>>
                 \o SplitFrom(s, Min(matches) + Len(NOTE_BREAK))

RegexSplit(s) == SplitFrom(s, 1)

\* the validation loop over the blocks: the exception the first offending block raises
SplitCheck(blocks) ==
    LET Bad(b) == b = <<>> \/ b[1] # "2" \/ b[Len(b)] # "]"
        bad == {k \in 1..Len(blocks) : Bad(blocks[k])}
    IN  IF bad = {} THEN NoErr
        ELSE LET b == blocks[Min(bad)]
             IN  IF b = <<>> THEN Raise("IndexError", "get_notes_from_path")
                 ELSE Raise("ValueError", "get_notes_from_path")

-----------------------------------------------------------------------------
(* extract_note_fields *)

\* ' - '
SEPARATOR ==
    <<" ", "-", " ">>

\* '. '
TITLE_END ==
    <<".", " ">>

\* ' tags: '
TAGS_MARK ==
    <<" ", "t", "a", "g", "s", ":", " ">>

\* ' tag'
TAG_AHEAD ==
    <<" ", "t", "a", "g">>

\* a note dict; matched is FALSE for None
NoFields ==
    [matched |-> FALSE, datetime |-> <<>>, title |-> <<>>, content |-> <<>>, tags |-> <<>>,
     filename |-> <<>>, cleaned_tags |-> <<>>]

\* the end of what `(?P<tags>.*)$` matches from position t of note, or -1: `.` matches
\* no line break and `$` matches at the end or before a line break that ends the string
TagsEnd(note, t) ==
    LET n == Len(note)
    IN  IF t > n + 1 THEN -1
        ELSE IF NoNewline(SubSeq(note, t, n)) THEN n
        ELSE IF note[n] = "\n" /\ NoNewline(SubSeq(note, t, n - 1)) THEN n - 1
        ELSE -1

\* the ends c of a content that starts at c0: `.+?` then (?= tag), ` tags: `, the tags
ContentEnds(note, c0) ==
    {c \in c0..Len(note) :
        /\ StartsWithAt(note, c + 1, TAG_AHEAD)
        /\ StartsWithAt(note, c + 1, TAGS_MARK)
        /\ NoNewline(SubSeq(note, c0, c))
        /\ TagsEnd(note, c + 1 + Len(TAGS_MARK)) # -1}

\* the ends e of a title that starts at t0: `.+?` then (?=\.|\?), `\. `, the content
TitleEnds(note, t0) ==
    {e \in t0..Len(note) :
        /\ e + 1 <= Len(note)
        /\ note[e + 1] \in {".", "?"}
        /\ StartsWithAt(note, e + 1, TITLE_END)
        /\ NoNewline(SubSeq(note, t0, e))
        /\ ContentEnds(note, e + 1 + Len(TITLE_END)) # {}}

\* regex.match of the composite pattern: the lazy groups take the shortest
\* title, then the shortest content, with which the rest matches
ExtractNoteFields(note) ==
    LET t0 == Len(TS_SHAPE) + Len(SEPARATOR) + 1
        titles == TitleEnds(note, t0)
        e == Min(titles)
        c0 == e + 1 + Len(TITLE_END)
        c == Min(ContentEnds(note, c0))
        g0 == c + 1 + Len(TAGS_MARK)
    IN  IF ~(TimestampAt(note, 1) /\ StartsWithAt(note, Len(TS_SHAPE) + 1, SEPARATOR))
        THEN NoFields
        ELSE IF titles = {} THEN NoFields
        ELSE [matched |-> TRUE,
              datetime |-> SubSeq(note, 1, Len(TS_SHAPE)),
              title |-> SubSeq(note, t0, e),
              content |-> SubSeq(note, c0, c),
              tags |-> SubSeq(note, g0, TagsEnd(note, g0)),
              filename |-> <<>>,
              cleaned_tags |-> <<>>]

\* no_match_indexes of check_notes_without_matches (0-based, as enumerate counts)
NoMatchIndexes(decomposed) == {k - 1 : k \in {j \in 1..Len(decomposed) : ~decomposed[j].matched}}

-----------------------------------------------------------------------------
(* validate_datetimes *)

\* the days of month m of year y
DaysIn(y, m) ==
    IF m = 2 THEN (IF (y % 4 = 0 /\ y % 100 # 0) \/ y % 400 = 0 THEN 29 ELSE 28)
    ELSE IF m \in {4, 6, 9, 11} THEN 30
    ELSE 31

\* whether dateutil's parse accepts dt, a string of the date-time pattern: its
\* fields must make a date and a time of day
DateutilParses(dt) ==
    LET y == ToInt(SubSeq(dt, 1, 4))
        m == ToInt(SubSeq(dt, 6, 7))
        d == ToInt(SubSeq(dt, 9, 10))
        hh == ToInt(SubSeq(dt, 12, 13))
        mm == ToInt(SubSeq(dt, 15, 16))
        ss == ToInt(SubSeq(dt, 18, 19))
    IN  /\ y >= 1
        /\ m \in 1..12
        /\ d >= 1
        /\ d <= DaysIn(y, m)
        /\ hh <= 23
        /\ mm <= 59
        /\ ss <= 59

\* parse(dt).isoformat(): the date, "T", the time of day
IsoFormat(dt) == SubSeq(dt, 1, 10) \o <<"T">> \o SubSeq(dt, 12, 19)

\* no_parse_date_notes, as the (1-based) positions of the notes
NoParseDateNotes(ns) == {k \in 1..Len(ns) : ~DateutilParses(ns[k].datetime)}

-----------------------------------------------------------------------------
(* add_filenames: the cleaning of a title into a file name *)

\* '.md'
MD ==
    <<".", "m", "d">>

\* the trailing punctuation one of which is removed
TRAILING == {"?", ",", "."}

\* the characters removed from the name, in the order the loop removes them
DISALLOWED == <<"\"", ",", "-", "'", "?", "^">>

RECURSIVE RemoveEach(_, _)
RemoveEach(name, chars) ==
    IF chars = <<>> THEN name
    ELSE RemoveEach(Replace(name, Head(chars), <<>>), Tail(chars))

\* name[-1] raises IndexError when the title is empty once lower-cased and stripped
Cleanable(title) == Strip(Lower(title)) # <<>>

\* CleanName with a slip: the extension is added only to a name that lacks it
CleanNameKeepingExtension(title) ==
    LET n1 == Strip(Lower(title))
        n2 == IF n1[Len(n1)] \in TRAILING THEN SubSeq(n1, 1, Len(n1) - 1) ELSE n1
        n3 == Replace(n2, " ", <<"_">>)
        n4 == IF EndsWith(n3, MD) THEN n3 ELSE n3 \o MD
    IN  RemoveEach(n4, DISALLOWED)

\* the name derived from a title (lines 134-149)
CleanName(title) ==
    LET n1 == Strip(Lower(title))
        n2 == IF n1[Len(n1)] \in TRAILING THEN SubSeq(n1, 1, Len(n1) - 1) ELSE n1
        n3 == Replace(n2, " ", <<"_">>)
        n4 == n3 \o MD
    IN  RemoveEach(n4, DISALLOWED)

\* whether temp_outpath.touch raises OSError: a "/" after the first character makes
\* the name a path into a sub-directory, which the fresh scratch directory lacks
ProbeRejects(name) == \E k \in 2..Len(name) : name[k] = "/"

-----------------------------------------------------------------------------
(* parse_tags and the tag steps of form_posts *)

\* 'mres'
MRES ==
    <<"m", "r", "e", "s">>

\* tags_without_brackets before the trailing comma is looked at
TagsWithoutBrackets(tags) ==
    LET t == Strip(tags)
    IN  Strip(SubSeq(t, 2, Len(t) - 1))

\* cleaned_tags of a tag string whose tags_without_brackets is not empty
CleanedTags(tags) ==
    LET t1 == TagsWithoutBrackets(tags)
        t2 == IF t1[Len(t1)] = "," THEN SubSeq(t1, 1, Len(t1) - 1) ELSE t1
        parts == SplitOn(t2, ",")
    IN  [k \in 1..Len(parts) |-> Strip(parts[k])]

HasSpace(tag) == \E k \in 1..Len(tag) : tag[k] = " "

\* TagError with a slip: a space in a tag is let through
TagErrorIgnoringSpaces(note) ==
    IF TagsWithoutBrackets(note.tags) = <<>> THEN Raise("IndexError", "parse_tags")
    ELSE NoErr

\* the exception parse_tags raises on one note, or NoErr
TagError(note) ==
    IF TagsWithoutBrackets(note.tags) = <<>> THEN Raise("IndexError", "parse_tags")
    ELSE IF \E k \in 1..Len(CleanedTags(note.tags)) : HasSpace(CleanedTags(note.tags)[k])
         THEN RaiseNaming("ValueError", "parse_tags", note.title)
    ELSE NoErr

\* add_mres_tag
AddMresTag(cleaned_tags) == Append(cleaned_tags, MRES)

\* sorted(S) for a set of strings
RECURSIVE Sorted(_)
Sorted(S) ==
    IF S = {} THEN <<>>
    ELSE LET least == CHOOSE x \in S : \A y \in S \ {x} : StrLess(x, y)
         IN  <<least>> \o Sorted(S \ {least})

\* DroppingDuplicatesAndSortingTags with a slip: the list is left as it is
NotSortingTags(cleaned_tags) == cleaned_tags

\* dropping_duplicates_and_sorting_tags: sorted(list(set(cleaned_tags)))
DroppingDuplicatesAndSortingTags(cleaned_tags) ==
    Sorted({cleaned_tags[k] : k \in 1..Len(cleaned_tags)})

\* add_title_as_markdown, then add_new_line_after_content
Body(note) == <<"#", " ">> \o Title(note.title) \o <<"\n", "\n">> \o note.content \o <<"\n">>

-----------------------------------------------------------------------------
(* form_posts and write_notes *)

\* the times datetime.now() may return
MaxClock == 2

Clock == 1..MaxClock

\* the Post of a note whose tags are final, with mdt the time of its creation
Post(note, mdt) ==
    [content |-> note.content, tags |-> note.cleaned_tags, cdt |-> note.datetime, mdt |-> mdt]

\* the steps form_posts takes on one note before it builds the Post
Formed(note) ==
    LET tagged == [note EXCEPT !.cleaned_tags = AddMresTag(@)]
        sorted == [tagged EXCEPT !.cleaned_tags = DroppingDuplicatesAndSortingTags(@)]
    IN  [sorted EXCEPT !.content = Body(sorted)]

\* Path(path).exists() for out_dir / name
Exists(dir, d, name) == dir = "dir" /\ name \in DOMAIN d

\* DestinationConflict with a slip: the flag is read the wrong way round
DestinationConflictInverted(dir, d, name, ok) == Exists(dir, d, name) /\ ok

\* the test of write_notes that refuses to write
DestinationConflict(dir, d, name, ok) == Exists(dir, d, name) /\ ~ok

\* Dump with a slip: a file that exists is left as it is
DumpKeepingExisting(d, name, post) ==
    [p \in DOMAIN d \cup {name} |-> IF p \in DOMAIN d THEN d[p] ELSE post]

\* frontmatter.dump(post, path): the files of out_dir afterwards
Dump(d, name, post) ==
    [p \in DOMAIN d \cup {name} |-> IF p = name THEN post ELSE d[p]]

-----------------------------------------------------------------------------
(* The inputs of the model. *)

\* '2024-01-01 10:00:00 - Ab. c tags: [b, a,]'
OK_A ==
    <<"2", "0", "2", "4", "-", "0", "1", "-", "0", "1", " ", "1", "0", ":", "0", "0", ":", "0",
      "0", " ", "-", " ", "A", "b", ".", " ", "c", " ", "t", "a", "g", "s", ":", " ", "[", "b",
      ",", " ", "a", ",", "]">>

\* '2024-01-01 10:00:00 - a-b. d tags: [a]'
OK_B ==
    <<"2", "0", "2", "4", "-", "0", "1", "-", "0", "1", " ", "1", "0", ":", "0", "0", ":", "0",
      "0", " ", "-", " ", "a", "-", "b", ".", " ", "d", " ", "t", "a", "g", "s", ":", " ", "[",
      "a", "]">>

\* '2024-02-29 23:59:59 - c. e tags: [mres,a,a]'
OK_C ==
    <<"2", "0", "2", "4", "-", "0", "2", "-", "2", "9", " ", "2", "3", ":", "5", "9", ":", "5",
      "9", " ", "-", " ", "c", ".", " ", "e", " ", "t", "a", "g", "s", ":", " ", "[", "m", "r",
      "e", "s", ",", "a", ",", "a", "]">>

\* '2024-01-01 10:00:00 - Why? x tags: [a]'
NO_MATCH ==
    <<"2", "0", "2", "4", "-", "0", "1", "-", "0", "1", " ", "1", "0", ":", "0", "0", ":", "0",
      "0", " ", "-", " ", "W", "h", "y", "?", " ", "x", " ", "t", "a", "g", "s", ":", " ", "[",
      "a", "]">>

\* '2024-01-01 25:00:00 - d. e tags: [a]'
BAD_TS ==
    <<"2", "0", "2", "4", "-", "0", "1", "-", "0", "1", " ", "2", "5", ":", "0", "0", ":", "0",
      "0", " ", "-", " ", "d", ".", " ", "e", " ", "t", "a", "g", "s", ":", " ", "[", "a", "]">>

\* '2024-01-01 10:00:00 - a/b. c tags: [a]'
BAD_NAME ==
    <<"2", "0", "2", "4", "-", "0", "1", "-", "0", "1", " ", "1", "0", ":", "0", "0", ":", "0",
      "0", " ", "-", " ", "a", "/", "b", ".", " ", "c", " ", "t", "a", "g", "s", ":", " ", "[",
      "a", "]">>

\* '2024-01-01 10:00:00 - e. f tags: [a b]'
BAD_TAG ==
    <<"2", "0", "2", "4", "-", "0", "1", "-", "0", "1", " ", "1", "0", ":", "0", "0", ":", "0",
      "0", " ", "-", " ", "e", ".", " ", "f", " ", "t", "a", "g", "s", ":", " ", "[", "a", " ",
      "b", "]">>

\* '1999-01-01 10:00:00 - f. g tags: [a]'
BAD_SPLIT ==
    <<"1", "9", "9", "9", "-", "0", "1", "-", "0", "1", " ", "1", "0", ":", "0", "0", ":", "0",
      "0", " ", "-", " ", "f", ".", " ", "g", " ", "t", "a", "g", "s", ":", " ", "[", "a", "]">>

\* the notes a log is made of: three well-formed ones (OK_A and OK_B derive the same
\* file name) and one for each way of being malformed
Catalog == <<OK_A, OK_B, OK_C, NO_MATCH, BAD_TS, BAD_NAME, BAD_TAG, BAD_SPLIT>>

\* the logs: up to MaxNotes notes of the catalog, a blank line between two
Logs ==
    {Join([k \in DOMAIN b |-> Catalog[b[k]]], NOTE_BREAK) :
        b \in UNION {[1..n -> 1..Len(Catalog)] : n \in 0..MaxNotes}}

\* 'ab.md'
AB_MD ==
    <<"a", "b", ".", "m", "d">>

\* 'old'
OLD ==
    <<"o", "l", "d">>

\* a document that is in out_dir before the run
OldDoc == [content |-> OLD, tags |-> <<>>, cdt |-> <<>>, mdt |-> 0]

\* what out_dir holds before the run: nothing, or a file of the name OK_A derives
Disks == {[p \in {} |-> OldDoc], [p \in {AB_MD} |-> OldDoc]}

-----------------------------------------------------------------------------
(* The pipeline of flat_note_to_atoms. *)

Init ==
    /\ log \in Logs
    /\ out_dir \in {"missing", "file", "dir"}
    /\ overwrite_ok \in BOOLEAN
    /\ disk \in Disks
    /\ (out_dir # "dir" => DOMAIN disk = {})
    /\ scratch \in {"absent", "empty", "nonempty"}
    /\ pc = "get_notes_from_path"
    /\ notes = <<>>
    /\ decomp_notes = <<>>
    /\ i = 0
    /\ posts = <<>>
    /\ written_files = <<>>
    /\ err = NoErr
    /\ names = <<>>

\* line 11
GetNotesFromPath ==
    /\ pc = "get_notes_from_path"
    /\ LET blocks == RegexSplit(log)
           e == SplitCheck(blocks)
       IN  IF e = NoErr
           THEN /\ notes' = blocks
                /\ pc' = "decompose_notes"
                /\ err' = err
           ELSE /\ notes' = notes
                /\ pc' = "failed"
                /\ err' = e
    /\ UNCHANGED <<log, out_dir, overwrite_ok, disk, scratch, decomp_notes, i, posts,
                   written_files, names>>

\* check_notes_without_matches: the exception it raises, or NoErr.  ValueError is a
\* class, not a context manager: the with statement raises TypeError before its body,
\* which would have attached the count and the indexes, runs
CheckNotesWithoutMatches(ns, decomposed) ==
    IF NoMatchIndexes(decomposed) # {}
    THEN Raise("TypeError", "check_notes_without_matches")
    ELSE NoErr

\* line 13
DecomposeNotes ==
    /\ pc = "decompose_notes"
    /\ LET decomposed == [k \in 1..Len(notes) |-> ExtractNoteFields(notes[k])]
           e == CheckNotesWithoutMatches(notes, decomposed)
       IN  IF e # NoErr
           THEN /\ err' = e
                /\ pc' = "failed"
                /\ decomp_notes' = decomp_notes
           ELSE IF \A k \in 1..Len(decomposed) : ~decomposed[k].matched
           THEN /\ err' = Raise("ValueError", "decompose_notes")
                /\ pc' = "failed"
                /\ decomp_notes' = decomp_notes
           ELSE /\ err' = err
                /\ pc' = "validate_datetimes"
                /\ decomp_notes' = decomposed
    /\ UNCHANGED <<log, out_dir, overwrite_ok, disk, scratch, notes, i, posts,
                   written_files, names>>

\* line 15: the dicts are rewritten in place, then the unparsed ones are reported
ValidateDatetimes ==
    /\ pc = "validate_datetimes"
    /\ LET bad == NoParseDateNotes(decomp_notes)
       IN  /\ decomp_notes' =
                 [k \in 1..Len(decomp_notes) |->
                     IF k \in bad THEN decomp_notes[k]
                     ELSE [decomp_notes[k] EXCEPT !.datetime = IsoFormat(@)]]
           /\ IF bad # {}
              THEN /\ err' = RaiseListing("ValueError", "validate_datetimes", bad)
                   /\ pc' = "failed"
              ELSE /\ err' = err
                   /\ pc' = "add_filenames"
    /\ UNCHANGED <<log, out_dir, overwrite_ok, disk, scratch, notes, i, posts,
                   written_files, names>>

\* line 17, add_filenames: temp_dir.mkdir(), which raises when the path exists
AddFilenamesMkdir ==
    /\ pc = "add_filenames"
    /\ IF scratch = "absent"
       THEN /\ scratch' = "empty"
            /\ err' = err
            /\ pc' = IF decomp_notes = <<>> THEN "rmdir" ELSE "touch"
       ELSE /\ scratch' = scratch
            /\ err' = Raise("FileExistsError", "mkdir")
            /\ pc' = "rmdir"
    /\ i' = 1
    /\ UNCHANGED <<log, out_dir, overwrite_ok, disk, notes, decomp_notes, posts,
                   written_files, names>>

\* add_filenames, lines 131-158 for note i: the name is derived and the probe file
\* created; an OSError of touch gets the candidate name attached and is raised again
AddFilenamesTouch ==
    /\ pc = "touch"
    /\ LET title == decomp_notes[i].title
       IN  IF ~Cleanable(title)
           THEN /\ err' = Raise("IndexError", "add_filenames")
                /\ pc' = "rmdir"
                /\ UNCHANGED <<scratch, names>>
           ELSE /\ names' = Append(names, CleanName(title))
                /\ pc' = "unlink"
                /\ IF ProbeRejects(CleanName(title))
                   THEN /\ err' = RaiseNaming("OSError", "touch", CleanName(title))
                        /\ scratch' = scratch
                   ELSE /\ err' = err
                        /\ scratch' = "probe"
    /\ UNCHANGED <<log, out_dir, overwrite_ok, disk, notes, decomp_notes, i, posts,
                   written_files>>

\* add_filenames, lines 159-161, the finally of the probe: unlink raises when touch
\* created no file, and its exception replaces the one in flight
AddFilenamesUnlink ==
    /\ pc = "unlink"
    /\ IF scratch = "probe"
       THEN /\ scratch' = "empty"
            /\ decomp_notes' = [decomp_notes EXCEPT ![i].filename = names[Len(names)]]
            /\ err' = err
            /\ i' = i + 1
            /\ pc' = IF i < Len(decomp_notes) THEN "touch" ELSE "rmdir"
       ELSE /\ err' = Raise("OSError", "unlink")
            /\ pc' = "rmdir"
            /\ UNCHANGED <<scratch, decomp_notes, i>>
    /\ UNCHANGED <<log, out_dir, overwrite_ok, disk, notes, posts, written_files, names>>

\* add_filenames, lines 163-168: the exception in flight is raised again, and the
\* finally removes temp_dir; rmdir raises on a directory that holds a file, and its
\* exception replaces the one in flight
AddFilenamesRmdir ==
    /\ pc = "rmdir"
    /\ IF scratch = "empty"
       THEN /\ scratch' = "absent"
            /\ err' = err
            /\ pc' = IF err = NoErr THEN "parse_tags" ELSE "failed"
       ELSE /\ scratch' = scratch
            /\ err' = Raise("OSError", "rmdir")
            /\ pc' = "failed"
    /\ UNCHANGED <<log, out_dir, overwrite_ok, disk, notes, decomp_notes, i, posts,
                   written_files, names>>

\* line 19: the notes before the first one whose tags raise get their cleaned_tags
ParseTags ==
    /\ pc = "parse_tags"
    /\ LET bad == {k \in 1..Len(decomp_notes) : TagError(decomp_notes[k]) # NoErr}
           upto == IF bad = {} THEN Len(decomp_notes) ELSE Min(bad) - 1
       IN  /\ decomp_notes' =
                 [k \in 1..Len(decomp_notes) |->
                     IF k <= upto
                     THEN [decomp_notes[k] EXCEPT
                              !.cleaned_tags = CleanedTags(decomp_notes[k].tags)]
                     ELSE decomp_notes[k]]
           /\ IF bad = {}
              THEN /\ err' = err
                   /\ pc' = "form_posts"
              ELSE /\ err' = TagError(decomp_notes[Min(bad)])
                   /\ pc' = "failed"
    /\ UNCHANGED <<log, out_dir, overwrite_ok, disk, scratch, notes, i, posts,
                   written_files, names>>

\* line 299, form_posts: each Post carries the time it was created at
FormPosts ==
    /\ pc = "form_posts"
    /\ \E mdt \in [1..Len(decomp_notes) -> Clock] :
          /\ \A a, b \in 1..Len(decomp_notes) : a < b => mdt[a] <= mdt[b]
          /\ decomp_notes' = [k \in 1..Len(decomp_notes) |-> Formed(decomp_notes[k])]
          /\ posts' =
                [k \in 1..Len(decomp_notes) |->
                    [post |-> Post(Formed(decomp_notes[k]), mdt[k]),
                     path |-> decomp_notes[k].filename]]
    /\ i' = 1
    /\ pc' = "write_notes"
    /\ UNCHANGED <<log, out_dir, overwrite_ok, disk, scratch, notes, written_files, err,
                   names>>

\* line 300, write_notes, one turn of its loop: the path is recorded as written
\* before frontmatter.dump opens it, which fails when out_dir is no directory
WriteNote ==
    /\ pc = "write_notes"
    /\ i <= Len(posts)
    /\ LET path == posts[i].path
       IN  IF DestinationConflict(out_dir, disk, path, overwrite_ok)
           THEN /\ err' = RaiseNaming("RuntimeError", "write_notes", path)
                /\ pc' = "failed"
                /\ UNCHANGED <<disk, written_files, i>>
           ELSE /\ written_files' = Append(written_files, path)
                /\ IF out_dir = "dir"
                   THEN /\ disk' = Dump(disk, path, posts[i].post)
                        /\ i' = i + 1
                        /\ UNCHANGED <<err, pc>>
                   ELSE /\ err' = Raise("OSError", "frontmatter.dump")
                        /\ pc' = "failed"
                        /\ UNCHANGED <<disk, i>>
    /\ UNCHANGED <<log, out_dir, overwrite_ok, scratch, notes, decomp_notes, posts, names>>

\* lines 295 and 25: written_files is returned
WriteReturn ==
    /\ pc = "write_notes"
    /\ i > Len(posts)
    /\ pc' = "done"
    /\ UNCHANGED <<log, out_dir, overwrite_ok, disk, scratch, notes, decomp_notes, i, posts,
                   written_files, err, names>>

Next ==
    \/ GetNotesFromPath
    \/ DecomposeNotes
    \/ ValidateDatetimes
    \/ AddFilenamesMkdir
    \/ AddFilenamesTouch
    \/ AddFilenamesUnlink
    \/ AddFilenamesRmdir
    \/ ParseTags
    \/ FormPosts
    \/ WriteNote
    \/ WriteReturn

Spec == Init /\ [][Next]_vars

-----------------------------------------------------------------------------
(* The splitter on its own: get_notes_from_path over texts made of fragments. *)

\* '2024-01-01 10:00:00 a]'
FRAG_NOTE ==
    <<"2", "0", "2", "4", "-", "0", "1", "-", "0", "1", " ", "1", "0", ":", "0", "0", ":", "0",
      "0", " ", "a", "]">>

\* '2024-01-01 10:00 b]'
FRAG_NEAR ==
    <<"2", "0", "2", "4", "-", "0", "1", "-", "0", "1", " ", "1", "0", ":", "0", "0", " ", "b",
      "]">>

\* '2]'
FRAG_TWO ==
    <<"2", "]">>

\* a whole small note, a block that lacks the seconds, a block that is no date at
\* all, the separator, a single line break and a letter
SplitFragments == <<FRAG_NOTE, FRAG_NEAR, FRAG_TWO, NOTE_BREAK, <<"\n">>, <<"x">>>>

\* the texts of up to MaxFragments fragments of frags
TextsOf(frags) ==
    {Join([k \in DOMAIN f |-> frags[f[k]]], <<>>) :
        f \in UNION {[1..n -> 1..Len(frags)] : n \in 0..MaxFragments}}

\* the state before the pipeline runs on the text in log, over a usable out_dir
Ready ==
    /\ out_dir = "dir"
    /\ overwrite_ok \in BOOLEAN
    /\ disk = [p \in {} |-> OldDoc]
    /\ scratch = "absent"
    /\ pc = "get_notes_from_path"
    /\ notes = <<>>
    /\ decomp_notes = <<>>
    /\ i = 0
    /\ posts = <<>>
    /\ written_files = <<>>
    /\ err = NoErr
    /\ names = <<>>

InitSplit == log \in TextsOf(SplitFragments) /\ Ready

NextSplit == GetNotesFromPath

SpecSplit == InitSplit /\ [][NextSplit]_vars

-----------------------------------------------------------------------------
(* The field extractor: the pipeline over logs of one note whose text after *)
(* the separator is made of fragments.                                      *)

\* '2024-01-01 10:00:00 - '
NOTE_HEAD ==
    <<"2", "0", "2", "4", "-", "0", "1", "-", "0", "1", " ", "1", "0", ":", "0", "0", ":", "0",
      "0", " ", "-", " ">>

\* 'Ab'
FRAG_WORD ==
    <<"A", "b">>

\* 'c tags: [a]'
FRAG_REST ==
    <<"c", " ", "t", "a", "g", "s", ":", " ", "[", "a", "]">>

\* '? '
FRAG_ASK ==
    <<"?", " ">>

\* a word, the two terminators with and without a space after them, the content
\* with the tags, and a line break
ExtractFragments == <<FRAG_WORD, <<".">>, <<"?">>, TITLE_END, FRAG_ASK, FRAG_REST, <<"\n">>>>

InitExtract ==
    /\ log \in {NOTE_HEAD \o t : t \in TextsOf(ExtractFragments)}
    /\ Ready

SpecExtract == InitExtract /\ [][Next]_vars

-----------------------------------------------------------------------------
(* The tag normalizer: the pipeline over logs of one note whose tag string   *)
(* is made of up to MaxTags tags.                                           *)

\* '2024-01-01 10:00:00 - t. c tags: '
TAG_NOTE_HEAD ==
    <<"2", "0", "2", "4", "-", "0", "1", "-", "0", "1", " ", "1", "0", ":", "0", "0", ":", "0",
      "0", " ", "-", " ", "t", ".", " ", "c", " ", "t", "a", "g", "s", ":", " ">>

\* the tags: two letters, an upper-case letter, the marker, the empty tag and a tag
\* with a space in it
TagWords == <<<<"a">>, <<"b">>, <<"Z">>, MRES, <<>>, <<"a", " ", "b">>>>

\* the tag strings: the tags joined by a comma, with or without a space after it,
\* with or without a trailing comma, in brackets
TagStrings ==
    {<<"[">> \o Join([k \in DOMAIN f |-> TagWords[f[k]]], sep) \o trail \o <<"]">> :
        f \in UNION {[1..n -> 1..Len(TagWords)] : n \in 0..MaxTags},
        sep \in {<<",">>, <<",", " ">>},
        trail \in {<<>>, <<",">>}}

InitTags ==
    /\ log \in {TAG_NOTE_HEAD \o t : t \in TagStrings}
    /\ Ready

SpecTags == InitTags /\ [][Next]_vars

-----------------------------------------------------------------------------
(* The filename cleaning on its own: a title is cleaned, and the name it     *)
(* gave is cleaned again.                                                   *)

\* the characters of the titles
TitleChars == {"a", "B", "_", " ", "\t", ".", "?", ",", "-"}

\* the titles: `.+?` matches one character at least
Titles == UNION {[1..n -> TitleChars] : n \in 1..MaxTitleLen}

InitClean ==
    /\ log = <<>>
    /\ out_dir = "dir"
    /\ overwrite_ok = FALSE
    /\ disk = [p \in {} |-> OldDoc]
    /\ scratch = "absent"
    /\ pc = "clean"
    /\ notes = <<>>
    /\ decomp_notes = <<>>
    /\ i = 0
    /\ posts = <<>>
    /\ written_files = <<>>
    /\ err = NoErr
    /\ \E t \in Titles : names = <<t>>

\* lines 134-149 applied to the last string of names
CleanAgain ==
    /\ pc = "clean"
    /\ Len(names) < 3
    /\ IF Cleanable(names[Len(names)])
       THEN /\ names' = Append(names, CleanName(names[Len(names)]))
            /\ UNCHANGED <<pc, err>>
       ELSE /\ err' = Raise("IndexError", "add_filenames")
            /\ pc' = "failed"
            /\ names' = names
    /\ UNCHANGED <<log, out_dir, overwrite_ok, disk, scratch, notes, decomp_notes, i, posts,
                   written_files>>

NextClean == CleanAgain

SpecClean == InitClean /\ [][NextClean]_vars

-----------------------------------------------------------------------------
(* validate_dir, which no line of flat_note_to_atoms or output_notes calls. *)

\* the exception validate_dir raises on what is at out_dir_path, or NoErr
ValidateDir(dir) ==
    IF dir = "missing" THEN Raise("ValueError", "validate_dir")
    ELSE IF dir # "dir" THEN Raise("ValueError", "validate_dir")
    ELSE NoErr

-----------------------------------------------------------------------------
(* The properties. *)

\* block b is malformed: it fails the split check, or does not match the field
\* pattern, or its timestamp cannot be parsed, or the probe rejects the name its
\* title gives, or one of its tags has a space in it
MalformedBlock(b) ==
    LET f == ExtractNoteFields(b)
        tags == CleanedTags(f.tags)
    IN  \/ b = <<>>
        \/ b[1] # "2"
        \/ b[Len(b)] # "]"
        \/ ~f.matched
        \/ ~DateutilParses(f.datetime)
        \/ (Cleanable(f.title) /\ ProbeRejects(CleanName(f.title)))
        \/ (TagsWithoutBrackets(f.tags) # <<>> /\ \E t \in 1..Len(tags) : HasSpace(tags[t]))

\* the blocks of the log
Blocks == RegexSplit(log)

Malformed == \E k \in 1..Len(Blocks) : MalformedBlock(Blocks[k])

\* C1: in a run over a log that holds a malformed note, wherever it sits, no step
\* changes the files of out_dir or records a file as written, and no step ends the
\* run normally: the run can only end as failed.
C1_ValidateEverythingThenWrite ==
    [][Malformed => disk' = disk /\ written_files' = <<>> /\ pc' # "done"]_vars

\* a run over a usable out_dir has failed on the tags of its second note, the
\* first note being well-formed
C1_Witness ==
    /\ pc = "failed"
    /\ err.at = "parse_tags"
    /\ err.kind = "ValueError"
    /\ out_dir = "dir"
    /\ Len(Blocks) = 2
    /\ ~MalformedBlock(Blocks[1])
    /\ MalformedBlock(Blocks[2])

\* C2: when out_dir is missing or is no directory, the run fails with the error of
\* validate_dir before anything else is done: the log is not split, no note is
\* decomposed and the scratch directory is not created.
C2_InvalidOutDirFailsFirst ==
    (out_dir # "dir" /\ pc # "get_notes_from_path") =>
        /\ pc = "failed"
        /\ err = ValidateDir(out_dir)
        /\ notes = <<>>
        /\ decomp_notes = <<>>

\* write_notes is at a document whose path exists, and overwriting is not allowed
ConflictTurn ==
    /\ pc = "write_notes"
    /\ i <= Len(posts)
    /\ out_dir = "dir"
    /\ posts[i].path \in DOMAIN disk
    /\ ~overwrite_ok

\* C3: at such a document write_notes raises an error that names the path, the
\* files of out_dir stay as they are and nothing more is recorded as written; and
\* no step is taken by a run that has failed.
C3_FailFastDestinationConflict ==
    [][/\ pc # "failed"
       /\ ConflictTurn =>
            /\ pc' = "failed"
            /\ err'.kind = "RuntimeError"
            /\ err'.name = posts[i].path
            /\ disk' = disk
            /\ written_files' = written_files]_vars

\* the first of two documents met a file that was there before the run
C3_Witness ==
    /\ pc = "failed"
    /\ err.kind = "RuntimeError"
    /\ Len(posts) = 2
    /\ i = 1
    /\ written_files = <<>>
    /\ disk[err.name] = OldDoc

\* C4: when some block has no match, decompose_notes fails, and its error reports
\* the indexes (and so the count) of all the blocks without a match.
C4_UnmatchedNotesReported ==
    LET unmatched == NoMatchIndexes([k \in 1..Len(notes) |-> ExtractNoteFields(notes[k])])
    IN  (pc \notin {"get_notes_from_path", "decompose_notes"} /\ unmatched # {}) =>
            /\ pc = "failed"
            /\ err.indices = unmatched

\* C5: when add_filenames has returned or raised, the scratch directory is gone, and
\* an exception it lets through is the original one, not one of the cleanup.
C5_ScratchDirRemovedOnEveryPath ==
    (pc = "parse_tags" \/
     (pc = "failed" /\ err.at \in {"mkdir", "touch", "unlink", "rmdir", "add_filenames"})) =>
        /\ scratch = "absent"
        /\ err.at \notin {"unlink", "rmdir"}

\* the tags are in strictly ascending order (so no tag is there twice) and the
\* marker is there once
TagsNormalized(tags) ==
    /\ \A a, b \in 1..Len(tags) : a < b => StrLess(tags[a], tags[b])
    /\ Cardinality({k \in 1..Len(tags) : tags[k] = MRES}) = 1

\* C6: every document the run wrote has tags that are sorted, without duplicate,
\* and hold the marker tag mres once.
C6_WrittenTagsNormalized ==
    \A k \in 1..Len(written_files) :
        written_files[k] \in DOMAIN disk => TagsNormalized(disk[written_files[k]].tags)

\* a document was written for a note whose tags came unsorted, with a duplicate and
\* with the marker among them
C6_Witness ==
    /\ pc = "done"
    /\ written_files # <<>>
    /\ written_files[1] \in DOMAIN disk
    /\ LET given == CleanedTags(ExtractNoteFields(Blocks[1]).tags)
       IN  /\ \E a, b \in 1..Len(given) : a < b /\ given[a] = given[b]
           /\ \E a, b \in 1..Len(given) : a < b /\ StrLess(given[b], given[a])
           /\ \E a \in 1..Len(given) : given[a] = MRES

\* C7, as claimed: cleaning the name a title gave yields that name again.
C7_CleaningIdempotent == Len(names) = 3 => names[3] = names[2]

\* C7, amended: cleaning the name a title gave never yields that name again: the
\* result ends in .md.md, and it is the name followed by .md whenever the name does
\* not start with white space.
C7_CleaningAppendsExtensionAgain ==
    Len(names) = 3 =>
        /\ names[3] # names[2]
        /\ EndsWith(names[3], MD \o MD)
        /\ (names[2][1] \notin Whitespace => names[3] = names[2] \o MD)

\* a title with a space, an upper-case letter and a trailing "?" was cleaned twice
C7_Witness ==
    /\ Len(names) = 3
    /\ names[1] = <<"B", " ", "?">>
    /\ names[2] = <<"b", "_", ".", "m", "d">>

\* the first `.` or `?` of a block after its separator
FirstTerminator(note) ==
    Min({p \in (Len(TS_SHAPE) + Len(SEPARATOR) + 1)..Len(note) : note[p] \in {".", "?"}})

\* C8: the title of a matched block is the text between the separator and the first
\* `.` or `?` after it, and the content starts after that character (and the space
\* that may follow it).  Blocks with no text before the first terminator are left out.
C8_TitleEndsAtFirstTerminator ==
    pc = "validate_datetimes" =>
        \A k \in 1..Len(decomp_notes) :
            LET q == FirstTerminator(notes[k])
            IN  q > Len(TS_SHAPE) + Len(SEPARATOR) + 1 =>
                /\ decomp_notes[k].title =
                      SubSeq(notes[k], Len(TS_SHAPE) + Len(SEPARATOR) + 1, q - 1)
                /\ (\/ StartsWithAt(notes[k], q + 1, decomp_notes[k].content)
                    \/ StartsWithAt(notes[k], q + 2, decomp_notes[k].content))

\* write_notes is at a document whose path an earlier document of the batch has
CollisionTurn ==
    /\ pc = "write_notes"
    /\ i <= Len(posts)
    /\ \E j \in 1..(i - 1) : posts[j].path = posts[i].path

\* C9, as claimed: the later of two documents of one path is written over the
\* earlier one without an error.  (Where overwriting is not allowed the run is at
\* such a document only if no file of that name was there before the run.)
C9_CollisionSilentlyOverwrites ==
    [][CollisionTurn =>
        /\ pc' = "write_notes"
        /\ err' = NoErr
        /\ disk'[posts[i].path] = posts[i].post]_vars

\* C9, amended: no stage before write_notes objects to two notes of one file name;
\* write_notes writes the later document over the earlier one, and goes on, when
\* overwrite_ok is true, and when it is false it raises the destination conflict
\* at the later document, which is not written.
C9_CollisionOverwritesOnlyIfAllowed ==
    [][CollisionTurn =>
        IF overwrite_ok
        THEN /\ pc' = "write_notes"
             /\ err' = NoErr
             /\ disk'[posts[i].path] = posts[i].post
             /\ written_files' = Append(written_files, posts[i].path)
        ELSE /\ pc' = "failed"
             /\ err'.kind = "RuntimeError"
             /\ err'.name = posts[i].path
             /\ disk' = disk
             /\ written_files' = written_files]_vars

\* the second of two notes of one file name met the document of the first
C9_Witness ==
    /\ pc = "failed"
    /\ err.kind = "RuntimeError"
    /\ i = 2
    /\ posts[1].path = posts[2].path
    /\ written_files = <<posts[1].path>>
    /\ disk[posts[1].path] = posts[1].post

\* C10: the blocks of an accepted text, joined by the separator, are the text, and
\* no block holds a note boundary.
C10_SplitLossless ==
    pc = "decompose_notes" =>
        /\ Join(notes, NOTE_BREAK) = log
        /\ \A k \in 1..Len(notes) : \A p \in 1..Len(notes[k]) : ~BoundaryAt(notes[k], p)

\* an accepted text of two blocks, one of which holds a blank line that is no
\* boundary
C10_Witness ==
    /\ pc = "decompose_notes"
    /\ Len(notes) = 2
    /\ \E k \in 1..Len(notes) : \E p \in 1..Len(notes[k]) :
          StartsWithAt(notes[k], p, NOTE_BREAK)

=============================================================================
